---- MODULE Spec2Model ----
(***************************************************************************)
(* Model of the co-championship graph notebook (map_creating&selection):   *)
(* the construction of the weighted graph G from the roster records, the   *)
(* depth-first enumeration precompute_unique_paths, and the queries        *)
(* query_paths_with_node, compute_group_score and find_max_group.          *)
(*                                                                         *)
(* Players (node identities) are modelled as integers: Python compares     *)
(* the names with <, and so does sorted(); the positive integers carry     *)
(* that order.  An empty Player cell is NaN, a float: the integers at or   *)
(* below 0 are the NaN objects.  A (Season, Team) group key is one         *)
(* integer, compared like the names.                                       *)
(***************************************************************************)
EXTENDS Integers, Sequences, FiniteSets, TLC

\* ---------------------------------------------------------------- bounds
\* Records of the roster table (rows of df), group keys and player names.
MaxRows == 3
MaxGroups == 2
MaxPlayers == 3
\* Graphs handed to precompute_unique_paths: nodes 1..n, n <= MaxNodes, and
\* the desired_length values tried.
MaxNodes == 4
MaxK == 3
\* Graphs and candidate lists handed to the scoring and selection functions.
MaxQNodes == 3
MaxCand == 2
\* Nodes of the graphs that are enumerated again in every other order.
MaxOrderNodes == 3

\* An optional value: Python's None, or a value x.
None == <<>>

Some(x) == <<x>>

VARIABLES
    pc,                    \* position in the notebook / in the running function
    df,                    \* the roster table: a sequence of [key, player] rows
    player_championships,  \* value_counts().to_dict(): sequence of <<player, count>>
    grouped,               \* df.groupby: sequence of [key, players]
    gi,                    \* index of the next group of the edge loop
    G,                     \* the networkx graph
    desired_length,        \* parameter of precompute_unique_paths
    all_paths,             \* list of recorded paths
    unique_paths,          \* set of sorted tuples
    path,                  \* the path list shared by all dfs calls
    stack,                 \* the call stack of dfs: frames [current, it]
    si,                    \* index of the next node of the outer for loop
    path_library,          \* value returned by precompute_unique_paths
    groups,                \* argument of find_max_group / query_paths_with_node
    query_node,            \* argument of query_paths_with_node
    group,                 \* argument of compute_group_score
    result,                \* value returned by the query function that ran
    raised,                \* the exception that left the function, "" if none
    paths_with_C,          \* query cell: query_paths_with_node(path_library, query_node)
    best_with,             \* query cell: find_max_group(G, paths_with_C)
    best_all,              \* query cell: find_max_group(G, path_library)
    kept_library,          \* the library an earlier call returned, kept by the caller
    workers                \* the searches run one per start node: [todo, inserted]

vars == <<pc, df, player_championships, grouped, gi, G, desired_length, all_paths,
          unique_paths, path, stack, si, path_library, groups, query_node, group,
          result, raised, paths_with_C, best_with, best_all, kept_library,
          workers>>

buildVars == <<df, player_championships, grouped, gi>>
enumVars == <<desired_length, all_paths, unique_paths, path, stack, si, path_library>>
cellVars == <<paths_with_C, best_with, best_all, kept_library>>
queryVars == <<groups, query_node, group, result, raised, cellVars>>

\* ------------------------------------------------------- Python helpers
Range(s) == {s[i] : i \in DOMAIN s}

\* x in list
Contains(s, x) == \E i \in DOMAIN s : s[i] = x

RECURSIVE InsertSorted(_, _)
InsertSorted(s, x) ==
    IF s = <<>> THEN <<x>>
    ELSE IF x < Head(s) THEN <<x>> \o s
    ELSE <<Head(s)>> \o InsertSorted(Tail(s), x)

\* sorted(list): ascending, stable
RECURSIVE Sorted(_)
Sorted(s) ==
    IF s = <<>> THEN <<>>
    ELSE InsertSorted(Sorted(SubSeq(s, 1, Len(s) - 1)), s[Len(s)])

\* itertools.combinations(list, 2): the pairs <<s[i], s[j]>>, i < j, in the
\* lexicographic order of (i, j); positions are paired, not values.
RECURSIVE CombinationsFrom(_, _, _)
CombinationsFrom(s, i, j) ==
    IF i >= Len(s) THEN <<>>
    ELSE IF j > Len(s) THEN CombinationsFrom(s, i + 1, i + 2)
    ELSE <<<<s[i], s[j]>>>> \o CombinationsFrom(s, i, j + 1)

combinations2(s) == CombinationsFrom(s, 1, 2)

\* The distinct values of a list in the order of their first appearance.
RECURSIVE Uniques(_)
Uniques(s) ==
    IF s = <<>> THEN <<>>
    ELSE LET u == Uniques(SubSeq(s, 1, Len(s) - 1))
         IN  IF Contains(u, s[Len(s)]) THEN u ELSE Append(u, s[Len(s)])

Count(s, x) == Cardinality({i \in DOMAIN s : s[i] = x})

\* ------------------------------------------------------ networkx.Graph
\* nodes: insertion order of G._node; nw: the 'weight' attribute of the nodes
\* that have one; adj: per node, its neighbours in insertion order (G._adj);
\* ew: the 'weight' attribute of an edge, one attribute dict shared by both
\* directions.
EmptyGraph == [nodes |-> <<>>, nw |-> <<>>, adj |-> <<>>, ew |-> <<>>]

HasNode(g, n) == n \in DOMAIN g.adj

has_edge(g, u, v) == HasNode(g, u) /\ Contains(g.adj[u], v)

\* G.add_node(n, weight=w): a new node is appended; attributes are updated.
add_node(g, n, w) ==
    [g EXCEPT !.nodes = IF HasNode(g, n) THEN @ ELSE Append(@, n),
              !.adj = IF HasNode(g, n) THEN @ ELSE (n :> <<>>) @@ @,
              !.nw = (n :> w) @@ @]

\* add_edge creates a missing endpoint with no attributes.
TouchNode(g, n) ==
    IF HasNode(g, n) THEN g
    ELSE [g EXCEPT !.nodes = Append(@, n), !.adj = (n :> <<>>) @@ @]

AddNeighbor(adj, u, v) ==
    IF Contains(adj[u], v) THEN adj ELSE [adj EXCEPT ![u] = Append(@, v)]

\* G.add_edge(u, v, weight=w)
add_edge(g, u, v, w) ==
    LET g1 == TouchNode(TouchNode(g, u), v)
    IN  [g1 EXCEPT !.adj = AddNeighbor(AddNeighbor(@, u, v), v, u),
                   !.ew = (<<u, v>> :> w) @@ (<<v, u>> :> w) @@ @]

\* G[u][v]['weight'] += 1
inc_edge_weight(g, u, v) ==
    [g EXCEPT !.ew = (<<u, v>> :> (g.ew[<<u, v>>] + 1))
                     @@ (<<v, u>> :> (g.ew[<<u, v>>] + 1)) @@ @]

\* G.neighbors(n)
neighbors(g, n) == g.adj[n]

\* G.nodes[n].get('weight', 0)
node_weight(g, n) == IF n \in DOMAIN g.nw THEN g.nw[n] ELSE 0

\* G[u][v].get('weight', 0)
edge_weight(g, u, v) == IF <<u, v>> \in DOMAIN g.ew THEN g.ew[<<u, v>>] ELSE 0


\* ------------------------------------------------ building the graph G
Column(rows, f) == [i \in DOMAIN rows |-> rows[i][f]]

\* pd.read_excel gives NaN, a float, for an empty Player cell.  In a column
\* that holds a name (dtype object) every such cell is the one object np.nan,
\* the identity NaN.  In a column that holds no name (dtype float64) tolist()
\* makes a float object of its own for every cell: the identity -i for the
\* cell of row i.  NaN is not equal to itself, so a dict or a list finds a
\* NaN object by identity only.
NaN == 0

is_nan(x) == x <= NaN

HasName(rows) == \E i \in DOMAIN rows : ~is_nan(rows[i].player)

dropna(col) == LET NotNaN(x) == ~is_nan(x) IN SelectSeq(col, NotNaN)

\* sorted(list) raises TypeError when it compares a float with a str: the
\* list holds a NaN and a name.
sorted_raises(s) == \E i, j \in DOMAIN s : is_nan(s[i]) /\ ~is_nan(s[j])

\* sorted(list) of a list that does not raise: names in ascending order; a
\* list of NaN only is left as it is, since NaN < NaN is False.
sorted(s) == IF \A i \in DOMAIN s : is_nan(s[i]) THEN s ELSE Sorted(s)

RECURSIVE InsertByCount(_, _)
InsertByCount(s, item) ==
    IF s = <<>> THEN <<item>>
    ELSE IF item[2] > Head(s)[2] THEN <<item>> \o s
    ELSE <<Head(s)>> \o InsertByCount(Tail(s), item)

RECURSIVE SortByCount(_)
SortByCount(s) ==
    IF s = <<>> THEN <<>>
    ELSE InsertByCount(SortByCount(SubSeq(s, 1, Len(s) - 1)), s[Len(s)])

\* df['Player'].value_counts().to_dict(): one entry per distinct player, its
\* value the number of ROWS naming the player, most frequent first (equal
\* counts stay in the order of first appearance).  NaN cells are not counted
\* (dropna=True is the default).
value_counts(col) ==
    LET u == Uniques(dropna(col))
    IN  SortByCount([i \in DOMAIN u |-> <<u[i], Count(col, u[i])>>])

\* for player, count in player_championships.items(): G.add_node(player, weight=count)
RECURSIVE AddNodes(_, _)
AddNodes(g, items) ==
    IF items = <<>> THEN g
    ELSE AddNodes(add_node(g, Head(items)[1], Head(items)[2]), Tail(items))

\* df.groupby(["Season", "Team"]): the groups in ascending key order, each
\* with its rows in table order: their Player cells and their row numbers.
groupby(rows) ==
    LET keys == Sorted(Uniques(Column(rows, "key")))
        numbered == [i \in DOMAIN rows |-> [key |-> rows[i].key,
                                             player |-> rows[i].player, index |-> i]]
        RowsOf(k) == LET InGroup(r) == r.key = k IN SelectSeq(numbered, InGroup)
    IN  [i \in DOMAIN keys |-> [key |-> keys[i],
                                 players |-> Column(RowsOf(keys[i]), "player"),
                                 index |-> Column(RowsOf(keys[i]), "index")]]

\* players = group["Player"].tolist(): the names, and for the empty cells the
\* NaN objects of the column.
tolist(rows, grp) ==
    [j \in DOMAIN grp.players |->
        IF ~is_nan(grp.players[j]) THEN grp.players[j]
        ELSE IF HasName(rows) THEN NaN
        ELSE 0 - grp.index[j]]

\* Mutant of edge_step: a new edge starts with weight 0.
edge_step_from_zero(g, player1, player2) ==
    IF has_edge(g, player1, player2)
    THEN inc_edge_weight(g, player1, player2)
    ELSE add_edge(g, player1, player2, 0)

\* The body of the pair loop: bump the edge's weight or create it with 1.
edge_step(g, player1, player2) ==
    IF has_edge(g, player1, player2)
    THEN inc_edge_weight(g, player1, player2)
    ELSE add_edge(g, player1, player2, 1)

RECURSIVE AddPairs(_, _)
AddPairs(g, pairs) ==
    IF pairs = <<>> THEN g
    ELSE AddPairs(edge_step(g, Head(pairs)[1], Head(pairs)[2]), Tail(pairs))

\* The pairs the edge loop visits for one group's player list.
group_pairs(players) == combinations2(sorted(players))

\* Roster tables: every sequence of at most MaxRows rows; a row's Player cell
\* holds a name 1..MaxPlayers or is empty.
Rows == [key : 1..MaxGroups, player : {NaN} \cup (1..MaxPlayers)]

Tables == UNION {[1..n -> Rows] : n \in 0..MaxRows}

EnumIdle ==
    /\ desired_length = 0
    /\ all_paths = <<>>
    /\ unique_paths = {}
    /\ path = <<>>
    /\ stack = <<>>
    /\ si = 0
    /\ path_library = None

QueryIdle ==
    /\ groups = <<>>
    /\ query_node = 0
    /\ group = <<>>
    /\ result = None
    /\ raised = ""
    /\ paths_with_C = <<>>
    /\ best_with = None
    /\ best_all = None
    /\ kept_library = None
    /\ workers = <<>>

BuildIdle ==
    /\ df = <<>>
    /\ player_championships = <<>>
    /\ grouped = <<>>
    /\ gi = 0

InitBuild ==
    /\ pc = "read"
    /\ df \in Tables
    /\ player_championships = <<>>
    /\ grouped = <<>>
    /\ gi = 0
    /\ G = EmptyGraph
    /\ EnumIdle
    /\ QueryIdle

ValueCounts ==
    /\ pc = "read"
    /\ player_championships' = value_counts(Column(df, "player"))
    /\ pc' = "counted"
    /\ UNCHANGED <<df, grouped, gi, G, enumVars, queryVars, workers>>

\* G = nx.Graph() and the add_node loop
AddAllNodes ==
    /\ pc = "counted"
    /\ G' = AddNodes(EmptyGraph, player_championships)
    /\ pc' = "nodes"
    /\ UNCHANGED <<buildVars, enumVars, queryVars, workers>>

GroupBy ==
    /\ pc = "nodes"
    /\ grouped' = groupby(df)
    /\ gi' = 1
    /\ pc' = "edges"
    /\ UNCHANGED <<df, player_championships, G, enumVars, queryVars, workers>>

\* One iteration of "for (season, team), group in grouped", pair loop included.
\* sorted(players) may raise TypeError: the cell ends there, with G as the
\* groups before left it.
AddGroupEdges ==
    /\ pc = "edges"
    /\ gi <= Len(grouped)
    /\ LET players == tolist(df, grouped[gi])
       IN  IF sorted_raises(players)
           THEN /\ raised' = "TypeError"
                /\ pc' = "failed"
                /\ UNCHANGED <<G, gi>>
           ELSE /\ G' = AddPairs(G, group_pairs(players))
                /\ gi' = gi + 1
                /\ UNCHANGED <<pc, raised>>
    /\ UNCHANGED <<df, player_championships, grouped, enumVars, groups, query_node,
                   group, result, cellVars, workers>>

EdgesDone ==
    /\ pc = "edges"
    /\ gi > Len(grouped)
    /\ pc' = "built"
    /\ UNCHANGED <<buildVars, G, enumVars, queryVars, workers>>

NextBuild == ValueCounts \/ AddAllNodes \/ GroupBy \/ AddGroupEdges \/ EdgesDone

SpecBuild == InitBuild /\ [][NextBuild]_vars


\* --------------------------------------------- precompute_unique_paths
\* Graphs handed to the enumeration: nodes 1..n inserted in ascending or in
\* descending order, then any set of edges (self-loops included, as the edge
\* loop above can create them) added in ascending order of the pairs.  The
\* enumeration reads no weight; every weight is 1.
Ident(n) == [i \in 1..n |-> i]

Reverse(s) == [i \in DOMAIN s |-> s[Len(s) + 1 - i]]

RECURSIVE AddUnitNodes(_, _)
AddUnitNodes(g, order) ==
    IF order = <<>> THEN g
    ELSE AddUnitNodes(add_node(g, Head(order), 1), Tail(order))

RECURSIVE AddUnitEdges(_, _)
AddUnitEdges(g, pairs) ==
    IF pairs = <<>> THEN g
    ELSE AddUnitEdges(add_edge(g, Head(pairs)[1], Head(pairs)[2], 1), Tail(pairs))

UnitGraph(order, pairs) == AddUnitEdges(AddUnitNodes(EmptyGraph, order), pairs)

\* Every sub-sequence of a sequence (the order of the kept elements is kept).
RECURSIVE SubSeqs(_)
SubSeqs(s) ==
    IF s = <<>> THEN {<<>>}
    ELSE LET rest == SubSeqs(Tail(s))
         IN  rest \cup {<<Head(s)>> \o r : r \in rest}

LoopPairs(n) == IF n >= 1 THEN {<<>>, <<<<1, 1>>>>} ELSE {<<>>}

EnumGraphs ==
    UNION {{UnitGraph(order, loops \o pairs) :
                order \in {Ident(n), Reverse(Ident(n))},
                loops \in LoopPairs(n),
                pairs \in SubSeqs(combinations2(Ident(n)))} : n \in 0..MaxNodes}

\* The desired_length values tried: the positive ones up to MaxK, and 0 and -1.
KValues == {-1} \cup (0..MaxK)

Init ==
    /\ pc = "call"
    /\ G \in EnumGraphs
    /\ desired_length \in KValues
    /\ all_paths = <<>>
    /\ unique_paths = {}
    /\ path = <<>>
    /\ stack = <<>>
    /\ si = 0
    /\ path_library = None
    /\ BuildIdle
    /\ QueryIdle

\* Mutant of sorted_path: the key of a path is its start node alone.
sorted_path_start(p) == SubSeq(p, 1, 1)

\* Mutant of sorted_path: the tuple is taken of the path as discovered.
sorted_path_unsorted(p) == p

\* sorted_path = tuple(sorted(path)).  (A path never holds a NaN and a name:
\* no edge joins them, as sorted(players) raises for a group that holds both.)
sorted_path(p) == sorted(p)

\* Mutants of not_in_path: a node counts as visited once any recorded path
\* holds it; and no test at all.
not_in_path_or_recorded(neighbor, p) ==
    ~Contains(p, neighbor) /\ \A i \in DOMAIN all_paths : ~Contains(all_paths[i], neighbor)

not_in_path_untested(neighbor, p) == TRUE

\* "neighbor not in path"
not_in_path(neighbor, p) == ~Contains(p, neighbor)

\* The frame of the dfs call that is running, and the neighbour its for loop
\* is at.  A frame is [current, it]: it is the position in G.neighbors(current).
Top == stack[Len(stack)]

\* Mutant of Pop: the first element is removed and not the last (pop(0)).
Pop_first(s) == Tail(s)

\* Mutant of Pop: nothing is removed, the call that returns stays the running one.
Pop_nothing(s) == s

Pop(s) == SubSeq(s, 1, Len(s) - 1)

\* Mutant of AfterReturn: the calling dfs goes on without its "path.pop()".
AfterReturn_no_pop(callers) == IF callers = <<>> THEN "loop" ELSE "dfs"

\* Where control goes when a dfs call returns: to "path.pop()" of the calling
\* dfs, or to the outer for loop.
AfterReturn(callers) == IF callers = <<>> THEN "loop" ELSE "backtrack"

\* Mutant of record_unique: the path is added as found, not its sorted tuple.
record_unique_as_found(seen) == seen \cup {path}

\* unique_paths.add(sorted_path)
record_unique(seen) == seen \cup {sorted_path(path)}

\* Mutant of record_path: a new path is put at the front of the library.
record_path_in_front(lib) == <<path>> \o lib

\* all_paths.append(path.copy())
record_path(lib) == Append(lib, path)

\* Mutant of new_unique_paths: the set outlives the call (a module-level set).
kept_unique_paths == unique_paths

\* unique_paths = set(): a new, empty set in every call
new_unique_paths == {}

\* all_paths = []; unique_paths = set()
EnterPrecompute ==
    /\ pc = "call"
    /\ all_paths' = <<>>
    /\ unique_paths' = new_unique_paths
    /\ si' = 1
    /\ pc' = "loop"
    /\ UNCHANGED <<G, desired_length, path, stack, path_library, buildVars, queryVars, workers>>

\* for node in G.nodes(): dfs(node, [node])
StartNode ==
    /\ pc = "loop"
    /\ si <= Len(G.nodes)
    /\ path' = <<G.nodes[si]>>
    /\ stack' = <<[current |-> G.nodes[si], it |-> 1]>>
    /\ si' = si + 1
    /\ pc' = "dfs"
    /\ UNCHANGED <<G, desired_length, all_paths, unique_paths, path_library,
                   buildVars, queryVars, workers>>

\* if len(path) == desired_length: the sorted tuple is in unique_paths; return.
\* (While a frame is the running one, len(path) is what it was when the frame
\* was entered, so the test is the one made on entry.)
DfsKnown ==
    /\ pc = "dfs"
    /\ Len(path) = desired_length
    /\ sorted_path(path) \in unique_paths
    /\ stack' = Pop(stack)
    /\ pc' = AfterReturn(Pop(stack))
    /\ UNCHANGED <<G, desired_length, all_paths, unique_paths, path, si,
                   path_library, buildVars, queryVars, workers>>

\* if len(path) == desired_length: the sorted tuple is not in unique_paths;
\* unique_paths.add(sorted_path).
DfsAdd ==
    /\ pc = "dfs"
    /\ Len(path) = desired_length
    /\ sorted_path(path) \notin unique_paths
    /\ unique_paths' = record_unique(unique_paths)
    /\ pc' = "record"
    /\ UNCHANGED <<G, desired_length, all_paths, path, stack, si, path_library,
                   buildVars, queryVars, workers>>

\* all_paths.append(path.copy()); return
DfsAppend ==
    /\ pc = "record"
    /\ all_paths' = record_path(all_paths)
    /\ stack' = Pop(stack)
    /\ pc' = AfterReturn(Pop(stack))
    /\ UNCHANGED <<G, desired_length, unique_paths, path, si, path_library,
                   buildVars, queryVars, workers>>

\* for neighbor in G.neighbors(current): neighbor is in path, next neighbour.
DfsSkip ==
    /\ pc = "dfs"
    /\ Len(path) # desired_length
    /\ Top.it <= Len(neighbors(G, Top.current))
    /\ ~not_in_path(neighbors(G, Top.current)[Top.it], path)
    /\ stack' = [stack EXCEPT ![Len(stack)].it = @ + 1]
    /\ UNCHANGED <<pc, G, desired_length, all_paths, unique_paths, path, si,
                   path_library, buildVars, queryVars, workers>>

\* neighbor not in path: path.append(neighbor); dfs(neighbor, path)
DfsExtend ==
    /\ pc = "dfs"
    /\ Len(path) # desired_length
    /\ Top.it <= Len(neighbors(G, Top.current))
    /\ LET neighbor == neighbors(G, Top.current)[Top.it]
       IN  /\ not_in_path(neighbor, path)
           /\ path' = Append(path, neighbor)
           /\ stack' = Append([stack EXCEPT ![Len(stack)].it = @ + 1],
                              [current |-> neighbor, it |-> 1])
    /\ UNCHANGED <<pc, G, desired_length, all_paths, unique_paths, si,
                   path_library, buildVars, queryVars, workers>>

\* The for loop over the neighbours is exhausted: the call returns.
DfsReturn ==
    /\ pc = "dfs"
    /\ Len(path) # desired_length
    /\ Top.it > Len(neighbors(G, Top.current))
    /\ stack' = Pop(stack)
    /\ pc' = AfterReturn(Pop(stack))
    /\ UNCHANGED <<G, desired_length, all_paths, unique_paths, path, si,
                   path_library, buildVars, queryVars, workers>>

\* path.pop()  # Backtrack
Backtrack ==
    /\ pc = "backtrack"
    /\ path' = Pop(path)
    /\ pc' = "dfs"
    /\ UNCHANGED <<G, desired_length, all_paths, unique_paths, stack, si,
                   path_library, buildVars, queryVars, workers>>

\* return all_paths
ReturnPaths ==
    /\ pc = "loop"
    /\ si > Len(G.nodes)
    /\ path_library' = Some(all_paths)
    /\ pc' = "done"
    /\ UNCHANGED <<G, desired_length, all_paths, unique_paths, path, stack, si,
                   buildVars, queryVars, workers>>

Next ==
    \/ EnterPrecompute
    \/ StartNode
    \/ DfsKnown
    \/ DfsAdd
    \/ DfsAppend
    \/ DfsSkip
    \/ DfsExtend
    \/ DfsReturn
    \/ Backtrack
    \/ ReturnPaths

Spec == Init /\ [][Next]_vars

\* The same call made a second time on the same graph: the caller keeps the
\* first library and calls precompute_unique_paths(G, desired_length) again.
CallAgain ==
    /\ pc = "done"
    /\ kept_library = None
    /\ kept_library' = path_library
    /\ path_library' = None
    /\ pc' = "call"
    /\ UNCHANGED <<G, desired_length, all_paths, unique_paths, path, stack, si,
                   groups, query_node, group, result, raised, paths_with_C,
                   best_with, best_all, buildVars, workers>>

InitTwice == Init /\ desired_length >= 1

NextTwice == Next \/ CallAgain

SpecTwice == InitTwice /\ [][NextTwice]_vars


\* ------------------------------------------------ querying and scoring
\* Mutant of query_paths_with_node: every path is kept.
query_paths_unfiltered(library, node) == library

\* Mutant of query_paths_with_node: the kept paths come out in reverse order.
RECURSIVE query_paths_reversed(_, _)
query_paths_reversed(library, node) ==
    IF library = <<>> THEN <<>>
    ELSE IF Contains(Head(library), node)
         THEN query_paths_reversed(Tail(library), node) \o <<Head(library)>>
         ELSE query_paths_reversed(Tail(library), node)

\* return [path for path in path_library if query_node in path]
RECURSIVE query_paths_with_node(_, _)
query_paths_with_node(library, node) ==
    IF library = <<>> THEN <<>>
    ELSE IF Contains(Head(library), node)
         THEN <<Head(library)>> \o query_paths_with_node(Tail(library), node)
         ELSE query_paths_with_node(Tail(library), node)

\* node_sum = sum(G.nodes[node].get('weight', 0) for node in group)
RECURSIVE node_sum(_, _)
node_sum(g, members) ==
    IF members = <<>> THEN 0
    ELSE node_weight(g, Head(members)) + node_sum(g, Tail(members))

\* Mutant of pair_score: an edge counts as 1 whatever its weight.
pair_score_unit(g, u, v) == IF has_edge(g, u, v) THEN 1 ELSE 0

\* The contribution of one pair of the combinations loop to edge_sum.
pair_score(g, u, v) == IF has_edge(g, u, v) THEN edge_weight(g, u, v) ELSE 0

\* edge_sum over itertools.combinations(group, 2)
RECURSIVE edge_sum(_, _)
edge_sum(g, pairs) ==
    IF pairs = <<>> THEN 0
    ELSE pair_score(g, Head(pairs)[1], Head(pairs)[2]) + edge_sum(g, Tail(pairs))

\* Mutant of raises_KeyError: the lookup falls back to a default (G.nodes.get).
raises_never(g, members) == FALSE

\* G.nodes[node] raises KeyError for a node that is not in the graph.
raises_KeyError(g, members) == \E i \in DOMAIN members : ~HasNode(g, members[i])

\* Mutant of compute_group_score: only consecutive members are paired.
compute_group_score_consecutive(g, members) ==
    node_sum(g, members)
        + edge_sum(g, [i \in 1..(Len(members) - 1) |-> <<members[i], members[i + 1]>>])

compute_group_score(g, members) ==
    node_sum(g, members) + edge_sum(g, combinations2(members))

\* Mutant of is_better: an equal score replaces the best one.
is_better_or_equal(score, best_score) == best_score = None \/ score >= best_score[1]

\* Mutant of is_better: without the "best_score is None" test.
is_better_than_known(score, best_score) == best_score # None /\ score > best_score[1]

\* "best_score is None or score > best_score"
is_better(score, best_score) == best_score = None \/ score > best_score[1]

\* The loop of find_max_group over the remaining groups.
RECURSIVE find_max_from(_, _, _, _)
find_max_from(g, rest, best_group, best_score) ==
    IF rest = <<>> THEN [best_group |-> best_group, best_score |-> best_score]
    ELSE LET score == compute_group_score(g, Head(rest))
         IN  IF is_better(score, best_score)
             THEN find_max_from(g, Tail(rest), Some(Head(rest)), Some(score))
             ELSE find_max_from(g, Tail(rest), best_group, best_score)

\* Mutant of find_max_group: the best starts as the empty group with score 0.
find_max_group_from_zero(g, gs) == find_max_from(g, gs, Some(<<>>), Some(0))

find_max_group(g, gs) == find_max_from(g, gs, None, None)

\* Inputs of the three functions.  Weighted graphs on the nodes 1..MaxQNodes:
\* every node weight in Weights, every pair of distinct nodes without an edge
\* or with an edge whose weight is in Weights.
Weights == {1, 2}

QNodes == Ident(MaxQNodes)

QPairs == combinations2(QNodes)

RECURSIVE AddWeightedEdges(_, _, _)
AddWeightedEdges(g, pairs, w) ==
    IF pairs = <<>> THEN g
    ELSE AddWeightedEdges(
             IF w[Len(w) + 1 - Len(pairs)] = 0 THEN g
             ELSE add_edge(g, Head(pairs)[1], Head(pairs)[2], w[Len(w) + 1 - Len(pairs)]),
             Tail(pairs), w)

WeightedGraph(nw, w) ==
    AddWeightedEdges(AddNodes(EmptyGraph, [i \in DOMAIN nw |-> <<i, nw[i]>>]), QPairs, w)

WeightedGraphs ==
    {WeightedGraph(nw, w) : nw \in [1..MaxQNodes -> Weights],
                            w \in [DOMAIN QPairs -> {0} \cup Weights]}

\* Graphs with unit weights on the same nodes, for the selection.
UnitQGraphs == {UnitGraph(QNodes, pairs) : pairs \in SubSeqs(QPairs)}

\* Every list of distinct nodes, in every order (a group as a caller may pass it).
RECURSIVE Arrangements(_)
Arrangements(S) ==
    IF S = {} THEN {<<>>}
    ELSE {<<>>} \cup UNION {{<<x>> \o r : r \in Arrangements(S \ {x})} : x \in S}

\* The orderings of all the elements of S.
Orderings(S) == {p \in Arrangements(S) : Len(p) = Cardinality(S)}

ScoreGroups == Arrangements(1..MaxQNodes)

\* The candidate groups of a list: the non-empty ascending lists of nodes.
CandGroups == SubSeqs(QNodes) \ {<<>>}

CandLists == UNION {[1..n -> CandGroups] : n \in 0..MaxCand}

\* An identity that is no node of the graphs above, the groups that hold it,
\* and the candidate lists that may hold such a group.
UnknownNode == MaxQNodes + 1

UnknownScoreGroups == {g \in Arrangements(1..UnknownNode) : Contains(g, UnknownNode)}

SelectGroups == CandGroups \cup {<<UnknownNode>>, <<1, UnknownNode>>}

SelectLists == UNION {[1..n -> SelectGroups] : n \in 0..MaxCand}

InitQuery ==
    /\ BuildIdle
    /\ EnumIdle
    /\ result = None
    /\ raised = ""
    /\ paths_with_C = <<>>
    /\ best_with = None
    /\ best_all = None
    /\ kept_library = None
    /\ workers = <<>>
    /\ \/ /\ pc = "score"
          /\ G \in WeightedGraphs
          /\ group \in ScoreGroups
          /\ groups = <<>>
          /\ query_node = 0
       \/ /\ pc = "score"
          /\ G \in UnitQGraphs
          /\ group \in UnknownScoreGroups
          /\ groups = <<>>
          /\ query_node = 0
       \/ /\ pc = "select"
          /\ G \in UnitQGraphs
          /\ groups \in SelectLists
          /\ group = <<>>
          /\ query_node = 0
       \/ /\ pc = "filter"
          /\ G = EmptyGraph
          /\ groups \in CandLists
          /\ query_node \in 1..(MaxQNodes + 1)
          /\ group = <<>>

ComputeScore ==
    /\ pc = "score"
    /\ IF raises_KeyError(G, group)
       THEN raised' = "KeyError" /\ result' = None
       ELSE raised' = "" /\ result' = Some(compute_group_score(G, group))
    /\ pc' = "scored"
    /\ UNCHANGED <<G, groups, query_node, group, cellVars, buildVars, enumVars, workers>>

FindMax ==
    /\ pc = "select"
    /\ IF \E i \in DOMAIN groups : raises_KeyError(G, groups[i])
       THEN raised' = "KeyError" /\ result' = None
       ELSE raised' = "" /\ result' = find_max_group(G, groups)
    /\ pc' = "selected"
    /\ UNCHANGED <<G, groups, query_node, group, cellVars, buildVars, enumVars, workers>>

QueryPaths ==
    /\ pc = "filter"
    /\ result' = query_paths_with_node(groups, query_node)
    /\ pc' = "filtered"
    /\ UNCHANGED <<G, groups, query_node, group, raised, cellVars, buildVars, enumVars, workers>>

NextQuery == ComputeScore \/ FindMax \/ QueryPaths

SpecQuery == InitQuery /\ [][NextQuery]_vars

\* ------------------------------------------------------ the query cells
\* The cells that follow the enumeration in the notebook: the paths holding a
\* queried node, the best group among them, and the best group of the library.
\* The queried node is any identity, one that is no node of G included.
QueryNodes == 1..(MaxNodes + 1)

\* The outcome of a find_max_group call: its value, or the error that left it.
find_max_raises(g, gs) == \E i \in DOMAIN gs : raises_KeyError(g, gs[i])

\* paths_with_C = query_paths_with_node(path_library, query_node)
QueryCell ==
    /\ pc = "done"
    /\ \E q \in QueryNodes :
           /\ query_node' = q
           /\ paths_with_C' = query_paths_with_node(path_library[1], q)
    /\ pc' = "queried"
    /\ UNCHANGED <<G, groups, group, result, raised, best_with, best_all,
                   kept_library, buildVars, enumVars, workers>>

\* best_group, best_score = find_max_group(G, paths_with_C)
BestWithCell ==
    /\ pc = "queried"
    /\ IF find_max_raises(G, paths_with_C)
       THEN raised' = "KeyError" /\ best_with' = None
       ELSE raised' = "" /\ best_with' = find_max_group(G, paths_with_C)
    /\ pc' = "best_with"
    /\ UNCHANGED <<G, groups, query_node, group, result, paths_with_C, best_all,
                   kept_library, buildVars, enumVars, workers>>

\* best_group, best_score = find_max_group(G, path_library)
BestCell ==
    /\ pc = "best_with"
    /\ raised = ""
    /\ IF find_max_raises(G, path_library[1])
       THEN raised' = "KeyError" /\ best_all' = None
       ELSE raised' = "" /\ best_all' = find_max_group(G, path_library[1])
    /\ pc' = "best"
    /\ UNCHANGED <<G, groups, query_node, group, result, paths_with_C, best_with,
                   kept_library, buildVars, enumVars, workers>>

\* The notebook calls the enumeration with a positive length.
InitFacade == Init /\ desired_length >= 1

NextFacade == Next \/ QueryCell \/ BestWithCell \/ BestCell

SpecFacade == InitFacade /\ [][NextFacade]_vars

\* ------------------------------------------- the orders of iteration
\* G.nodes() and G.neighbors(n) iterate in insertion order, so the order of the
\* start nodes and of the neighbours is an input: that of the calls that built
\* G.  The enumeration is run on a graph and then on the same nodes and edges
\* in another order: the nodes in any order with every neighbour list forwards
\* or backwards, or the nodes forwards or backwards with every neighbour list
\* in any order (every order of all of them, for lists of up to two neighbours).
OrderGraphs ==
    UNION {{UnitGraph(Ident(n), pairs) : pairs \in SubSeqs(combinations2(Ident(n)))} :
               n \in 0..MaxOrderNodes}

\* Every way to order each neighbour list of the nodes in S.
RECURSIVE AdjOrders(_, _)
AdjOrders(adj, S) ==
    IF S = {} THEN {<<>>}
    ELSE LET n == CHOOSE x \in S : TRUE
         IN  {(n :> o) @@ rest : o \in Orderings(Range(adj[n])),
                                 rest \in AdjOrders(adj, S \ {n})}

\* Every way to keep or to reverse each neighbour list of the nodes in S.
RECURSIVE AdjFlips(_, _)
AdjFlips(adj, S) ==
    IF S = {} THEN {<<>>}
    ELSE LET n == CHOOSE x \in S : TRUE
         IN  {(n :> o) @@ rest : o \in {adj[n], Reverse(adj[n])},
                                 rest \in AdjFlips(adj, S \ {n})}

Reorderings(g) ==
    {[g EXCEPT !.nodes = o, !.adj = a] :
         o \in Orderings(Range(g.nodes)), a \in AdjFlips(g.adj, DOMAIN g.adj)}
    \cup {[g EXCEPT !.nodes = o, !.adj = a] :
              o \in {g.nodes, Reverse(g.nodes)}, a \in AdjOrders(g.adj, DOMAIN g.adj)}

\* The caller keeps the library and calls again with the graph in another order.
CallReordered ==
    /\ pc = "done"
    /\ kept_library = None
    /\ G' \in Reorderings(G)
    /\ kept_library' = path_library
    /\ path_library' = None
    /\ pc' = "call"
    /\ UNCHANGED <<desired_length, all_paths, unique_paths, path, stack, si,
                   groups, query_node, group, result, raised, paths_with_C,
                   best_with, best_all, buildVars, workers>>

\* The paths of desired_length nodes that dfs(start, [start]) comes to, in the
\* order it comes to them: dfs_paths(g, k, <<start>>, 1).  p is the path of a
\* dfs call and it the position of its for loop in G.neighbors(current).
RECURSIVE dfs_paths(_, _, _, _)
dfs_paths(g, k, p, it) ==
    IF Len(p) = k THEN <<p>>
    ELSE IF it > Len(neighbors(g, p[Len(p)])) THEN <<>>
    ELSE LET neighbor == neighbors(g, p[Len(p)])[it]
         IN  (IF not_in_path(neighbor, p)
              THEN dfs_paths(g, k, Append(p, neighbor), 1)
              ELSE <<>>)
             \o dfs_paths(g, k, p, it + 1)

\* An enumeration that runs one search per start node, the searches
\* interleaved in any way over the one set unique_paths and the one list
\* all_paths.  A search goes through the paths of its dfs (todo holds those
\* still to come); for each it tests
\* and inserts the sorted tuple in one step, and appends the path to the list
\* in a later step if the tuple was new.
WorkerPaths(g, k, w) == dfs_paths(g, k, <<g.nodes[w]>>, 1)

\* The caller keeps the library and calls the interleaved enumeration on the
\* same graph.
CallInterleaved ==
    /\ pc = "done"
    /\ kept_library = None
    /\ kept_library' = path_library
    /\ path_library' = None
    /\ all_paths' = <<>>
    /\ unique_paths' = {}
    /\ workers' = [w \in DOMAIN G.nodes |->
                       [todo |-> WorkerPaths(G, desired_length, w), inserted |-> FALSE]]
    /\ pc' = "searches"
    /\ UNCHANGED <<G, desired_length, path, stack, si, groups, query_node, group,
                   result, raised, paths_with_C, best_with, best_all, buildVars>>

\* Search w tests the sorted tuple of its next path and inserts it if it is
\* not in the set, in one step.
CheckAndInsert(w) ==
    /\ pc = "searches"
    /\ ~workers[w].inserted
    /\ workers[w].todo # <<>>
    /\ LET p == Head(workers[w].todo)
       IN  IF sorted_path(p) \in unique_paths
           THEN /\ workers' = [workers EXCEPT ![w].todo = Tail(@)]
                /\ UNCHANGED unique_paths
           ELSE /\ unique_paths' = unique_paths \cup {sorted_path(p)}
                /\ workers' = [workers EXCEPT ![w].inserted = TRUE]
    /\ UNCHANGED <<pc, G, desired_length, all_paths, path, stack, si, path_library,
                   buildVars, queryVars>>

\* Search w appends the path whose tuple it inserted.
WorkerAppend(w) ==
    /\ pc = "searches"
    /\ workers[w].inserted
    /\ all_paths' = Append(all_paths, Head(workers[w].todo))
    /\ workers' = [workers EXCEPT ![w] = [todo |-> Tail(@.todo), inserted |-> FALSE]]
    /\ UNCHANGED <<pc, G, desired_length, unique_paths, path, stack, si,
                   path_library, buildVars, queryVars>>

\* Every search is through: the list is returned.
SearchesDone ==
    /\ pc = "searches"
    /\ \A w \in DOMAIN workers : workers[w].todo = <<>>
    /\ path_library' = Some(all_paths)
    /\ pc' = "done"
    /\ UNCHANGED <<G, desired_length, all_paths, unique_paths, path, stack, si,
                   workers, buildVars, queryVars>>

InitOrders == Init /\ G \in OrderGraphs /\ desired_length >= 1

NextOrders ==
    \/ Next
    \/ CallReordered
    \/ CallInterleaved
    \/ \E w \in DOMAIN workers : CheckAndInsert(w)
    \/ \E w \in DOMAIN workers : WorkerAppend(w)
    \/ SearchesDone

SpecOrders == InitOrders /\ [][NextOrders]_vars

\* The notebook from the roster table on, its cells run in order: the graph
\* is built from the rows, printed, and handed to precompute_unique_paths.
\* A cell that raises ends the run.

\* list(G.nodes(data=True))[:10]: the nodes the printing cell reads.
PrintLimit == 10

PrintedNodes(g) ==
    SubSeq(g.nodes, 1, IF Len(g.nodes) < PrintLimit THEN Len(g.nodes) ELSE PrintLimit)

\* data['weight'] raises KeyError for a node that has no weight: one that
\* add_edge made (a NaN), not the add_node loop.
print_raises(g) == \E i \in DOMAIN PrintedNodes(g) : PrintedNodes(g)[i] \notin DOMAIN g.nw

\* The three printing cells: the counts, the first nodes with their weight,
\* the first edges with their weight (every edge has one).
PrintGraph ==
    /\ pc = "built"
    /\ IF print_raises(G)
       THEN raised' = "KeyError" /\ pc' = "failed"
       ELSE raised' = raised /\ pc' = "printed"
    /\ UNCHANGED <<G, buildVars, enumVars, groups, query_node, group, result, cellVars, workers>>

\* The cell calls precompute_unique_paths(G, desired_length=5); the length is
\* taken as a parameter of the cell: 5, or any positive length up to MaxK.
DesiredLength == 5

CallCell ==
    /\ pc = "printed"
    /\ desired_length' \in (1..MaxK) \cup {DesiredLength}
    /\ pc' = "call"
    /\ UNCHANGED <<G, all_paths, unique_paths, path, stack, si, path_library,
                   buildVars, queryVars, workers>>

NextPipeline == NextBuild \/ PrintGraph \/ CallCell \/ Next

SpecPipeline == InitBuild /\ [][NextPipeline]_vars

\* The interpreter runs the next statement of the call as long as there is
\* one: a call does not stop half-way.
SpecLive == InitOrders /\ [][Next]_vars /\ WF_vars(Next)

\* ------------------------------------------------ a five-player graph
\* One concrete graph run through all the functions: the players 1..5 (A..E)
\* with the championship counts 3, 2, 2, 1, 1 and the weighted edges
\* A-B 2, A-C 1, B-C 1, C-D 1, D-E 1, each as <<u, v, weight>>.
ScenarioNodeWeights == <<3, 2, 2, 1, 1>>

ScenarioEdges == <<<<1, 2, 2>>, <<1, 3, 1>>, <<2, 3, 1>>, <<3, 4, 1>>, <<4, 5, 1>>>>

ScenarioPlayers == DOMAIN ScenarioNodeWeights

RECURSIVE AddScenarioEdges(_, _)
AddScenarioEdges(g, edges) ==
    IF edges = <<>> THEN g
    ELSE AddScenarioEdges(add_edge(g, Head(edges)[1], Head(edges)[2], Head(edges)[3]),
                          Tail(edges))

\* The graph after the nodes were added in the given order and then the edges.
ScenarioGraph(order, edges) ==
    AddScenarioEdges(
        AddNodes(EmptyGraph, [i \in DOMAIN order |-> <<order[i], ScenarioNodeWeights[order[i]]>>]),
        edges)

\* The graph with its nodes and its edges inserted forwards or backwards.
ScenarioGraphs ==
    {ScenarioGraph(order, edges) :
         order \in {Ident(Len(ScenarioNodeWeights)), Reverse(Ident(Len(ScenarioNodeWeights)))},
         edges \in {ScenarioEdges, Reverse(ScenarioEdges)}}

\* Groups of three players in any order, and lists of at most two of the
\* groups {A, B, C} and {C, D, E}, each in any member order.
ScenarioScoreGroups == {g \in Arrangements(ScenarioPlayers) : Len(g) = 3}

ScenarioCandGroups == Orderings({1, 2, 3}) \cup Orderings({3, 4, 5})

ScenarioLists == UNION {[1..n -> ScenarioCandGroups] : n \in 0..2}

InitScenario ==
    /\ BuildIdle
    /\ G \in ScenarioGraphs
    /\ all_paths = <<>>
    /\ unique_paths = {}
    /\ path = <<>>
    /\ stack = <<>>
    /\ si = 0
    /\ path_library = None
    /\ result = None
    /\ raised = ""
    /\ paths_with_C = <<>>
    /\ best_with = None
    /\ best_all = None
    /\ kept_library = None
    /\ workers = <<>>
    /\ \/ /\ pc = "call"
          /\ desired_length \in ScenarioPlayers
          /\ groups = <<>>
          /\ group = <<>>
          /\ query_node = 0
       \/ /\ pc = "score"
          /\ desired_length = 0
          /\ group \in ScenarioScoreGroups
          /\ groups = <<>>
          /\ query_node = 0
       \/ /\ pc = "select"
          /\ desired_length = 0
          /\ groups \in ScenarioLists
          /\ group = <<>>
          /\ query_node = 0
       \/ /\ pc = "filter"
          /\ desired_length = 0
          /\ groups \in ScenarioLists
          /\ group = <<>>
          /\ query_node \in ScenarioPlayers

NextScenario == NextFacade \/ NextQuery

SpecScenario == InitScenario /\ [][NextScenario]_vars


\* ------------------------------------------------------------ properties
\* What the claims speak of, stated on sets and not the way the code computes it.

\* p is a simple path of g: its nodes are distinct and consecutive ones adjacent.
IsSimplePath(g, p) ==
    /\ \A i, j \in DOMAIN p : i # j => p[i] # p[j]
    /\ \A i \in DOMAIN p : HasNode(g, p[i])
    /\ \A i \in 1..(Len(p) - 1) : has_edge(g, p[i], p[i + 1])

\* Some simple path of g visits exactly the nodes of S.
PathVisits(g, S) == \E p \in Orderings(S) : IsSimplePath(g, p)

\* The value returned by precompute_unique_paths.
Library == path_library[1]

Returned == pc = "done" /\ path_library # None

RECURSIVE SumOver(_, _)
SumOver(S, f) ==
    IF S = {} THEN 0
    ELSE LET x == CHOOSE y \in S : TRUE IN f[x] + SumOver(S \ {x}, f)

\* The unordered pairs of distinct members of S that an edge of g joins.
JoinedPairs(g, S) == {e \in SUBSET S : Cardinality(e) = 2 /\ \E u, v \in e : u # v /\ has_edge(g, u, v)}

PairWeight(g, e) == LET u == CHOOSE x \in e : TRUE
                        v == CHOOSE y \in e : y # u
                    IN  g.ew[<<u, v>>]

\* Sum of the members' node weights plus sum of the weights of the edges among them.
SetScore(g, S) ==
    SumOver(S, [n \in S |-> g.nw[n]])
        + SumOver(JoinedPairs(g, S), [e \in JoinedPairs(g, S) |-> PairWeight(g, e)])

\* The group keys of the rows that name player p.
GroupsOf(p) == {df[i].key : i \in {j \in DOMAIN df : df[j].player = p}}

\* C1: after enumerate(graph, k) with k >= 1, no two entries of the returned
\* library have the same member set.
C1_NoDuplicateGroups ==
    (Returned /\ desired_length >= 1) =>
        \A i, j \in DOMAIN Library : i # j => Range(Library[i]) # Range(Library[j])

\* C1 witness: a library of two or more groups, one of which the search met
\* again along another simple path over the same members.
C1_Witness ==
    /\ Returned
    /\ desired_length >= 3
    /\ Len(Library) >= 2
    /\ \E i \in DOMAIN Library :
           \E q \in Orderings(Range(Library[i])) : q # Library[i] /\ IsSimplePath(G, q)

\* C2: for k >= 1, every set S of exactly k nodes that some simple path visits
\* has exactly one entry in the returned library.
C2_Complete ==
    (Returned /\ desired_length >= 1) =>
        \A S \in SUBSET Range(G.nodes) :
            (Cardinality(S) = desired_length /\ PathVisits(G, S)) =>
                Cardinality({i \in DOMAIN Library : Range(Library[i]) = S}) = 1

\* C2 witness: k = 3 on a graph where some 3-sets are visited by a simple path
\* (two or more of them) and some 3-set is not.
C2_Witness ==
    /\ Returned
    /\ desired_length = 3
    /\ Len(Library) >= 2
    /\ \E S \in SUBSET Range(G.nodes) : Cardinality(S) = 3 /\ ~PathVisits(G, S)
    /\ \E S \in SUBSET Range(G.nodes) : Cardinality(S) = 3 /\ PathVisits(G, S)

\* C3: for k >= 1, every entry of the returned library is a simple path of the
\* graph with exactly k members.
C3_EntriesAreSimplePaths ==
    (Returned /\ desired_length >= 1) =>
        \A i \in DOMAIN Library :
            Len(Library[i]) = desired_length /\ IsSimplePath(G, Library[i])

\* C3 witness: a returned entry of three nodes whose first and last member are
\* adjacent (the search met a visited neighbour) and that is not in sorted order.
C3_Witness ==
    /\ Returned
    /\ desired_length = 3
    /\ \E i \in DOMAIN Library :
           /\ has_edge(G, Library[i][3], Library[i][1])
           /\ Library[i] # Sorted(Library[i])

\* C4: after build every edge's weight is the number of distinct groups in
\* which both of its endpoints occur, for every table (repeated members included).
C4_EdgeWeightIsCoOccurrence ==
    pc = "built" =>
        \A u, v \in Range(G.nodes) :
            has_edge(G, u, v) => G.ew[<<u, v>>] = Cardinality(GroupsOf(u) \cap GroupsOf(v))

\* C5: after build there is exactly one node per distinct member and its weight
\* is the number of distinct groups that contain the member.
C5_NodeWeightIsGroupCount ==
    pc = "built" =>
        /\ Range(G.nodes) = Range(Column(df, "player"))
        /\ \A i, j \in DOMAIN G.nodes : i # j => G.nodes[i] # G.nodes[j]
        /\ \A n \in Range(G.nodes) : node_weight(G, n) = Cardinality(GroupsOf(n))

\* C6: the built graph has no self-loop, also when a member appears twice in
\* one group's records.
C6_NoSelfLoop == \A n \in Range(G.nodes) : ~has_edge(G, n, n)

\* C7: score(graph, group) is the sum of the members' node weights plus the
\* sum of the edge weights over the unordered pairs of members joined by an edge.
C7_ScoreIsNodePlusEdgeSum ==
    (pc = "scored" /\ raised = "") => result = Some(SetScore(G, Range(group)))

\* C7 witness: a scored group of three members with a joined and an unjoined
\* pair, its first and last member joined.
C7_Witness ==
    /\ pc = "scored"
    /\ Len(group) = 3
    /\ has_edge(G, group[1], group[3])
    /\ ~has_edge(G, group[1], group[2])
    /\ result = Some(SetScore(G, Range(group)))

\* C8: for a non-empty list, select_best returns an input group with its score,
\* no input group scores strictly more, and it is the first one at that score.
C8_SelectFirstMaximum ==
    (pc = "selected" /\ raised = "" /\ groups # <<>>) =>
        \E i \in DOMAIN groups :
            /\ result.best_group = Some(groups[i])
            /\ result.best_score = Some(SetScore(G, Range(groups[i])))
            /\ \A j \in DOMAIN groups :
                   SetScore(G, Range(groups[j])) <= SetScore(G, Range(groups[i]))
            /\ \A j \in 1..(i - 1) :
                   SetScore(G, Range(groups[j])) < SetScore(G, Range(groups[i]))

\* C8 witness: two different groups tie at the maximum and the first is returned.
C8_Witness ==
    /\ pc = "selected"
    /\ Len(groups) = 2
    /\ groups[1] # groups[2]
    /\ SetScore(G, Range(groups[1])) = SetScore(G, Range(groups[2]))
    /\ result.best_group = Some(groups[1])

\* The positions of the input groups that contain the queried node.
Holding == {i \in DOMAIN groups : query_node \in Range(groups[i])}

\* C9: filter_by_member returns exactly the input groups that contain node, each
\* once and in input order; the empty list, and no error, when no group does.
C9_FilterKeepsHoldersInOrder ==
    pc = "filtered" =>
        /\ raised = ""
        /\ Len(result) = Cardinality(Holding)
        /\ \A j \in DOMAIN result :
               \E i \in Holding :
                   Cardinality({m \in Holding : m <= i}) = j /\ result[j] = groups[i]

\* C9 witness: of two input groups the first is dropped and the second kept.
C9_Witness ==
    /\ pc = "filtered"
    /\ Len(groups) = 2
    /\ Holding = {2}
    /\ result = <<groups[2]>>

\* C10: enumerate(graph, k) with k <= 0 fails with InvalidParameterError and
\* returns no library.
C10_NonPositiveKFails ==
    (pc = "done" /\ desired_length <= 0) =>
        raised = "InvalidParameterError" /\ path_library = None


\* C11: build fails with MalformedInputError when a record has an empty member
\* name, and produces no graph.
C11_EmptyNameFails ==
    (\E i \in DOMAIN df : df[i].player = NaN) =>
        /\ G = EmptyGraph
        /\ pc \in {"built", "failed"} => raised = "MalformedInputError"


\* Some member of the list is no node of the graph.
HoldsUnknown(members) == \E i \in DOMAIN members : members[i] \notin Range(G.nodes)

\* C12: score on a group holding an identity that is no node of the graph ends
\* in an error and returns no number; select_best over a list holding such a
\* group ends in the error too.
C12_UnknownNodeIsAnError ==
    /\ (pc = "scored" /\ HoldsUnknown(group)) => (raised # "" /\ result = None)
    /\ (pc = "selected" /\ \E i \in DOMAIN groups : HoldsUnknown(groups[i])) =>
           (raised # "" /\ result = None)

\* C12 witness: select_best ran over a list whose first group is made of nodes
\* of the graph and whose second group holds an unknown identity.
C12_Witness ==
    /\ pc = "selected"
    /\ Len(groups) = 2
    /\ ~HoldsUnknown(groups[1])
    /\ HoldsUnknown(groups[2])
    /\ raised = "KeyError"


\* The empty result of find_max_group.
EmptyResult == [best_group |-> None, best_score |-> None]

\* C13: the empty cases are results, not errors: enumerate on an empty graph or
\* with k above the node count returns the empty library, and select_best on
\* an empty candidate list returns the empty result, nothing being raised.
C13_EmptyCasesAreResults ==
    /\ (Returned /\ desired_length >= 1
            /\ (G.nodes = <<>> \/ desired_length > Len(G.nodes))) =>
           (Library = <<>> /\ raised = "")
    /\ (pc \in {"best_with", "best"} /\ paths_with_C = <<>>) =>
           (best_with = EmptyResult /\ raised = "")
    /\ (pc = "best" /\ Library = <<>>) => (best_all = EmptyResult /\ raised = "")

\* C13 witness: on a graph with nodes and k above their count, the library is
\* empty and both selections returned the empty result.
C13_Witness ==
    /\ pc = "best"
    /\ G.nodes # <<>>
    /\ desired_length > Len(G.nodes)
    /\ Library = <<>>
    /\ best_with = EmptyResult
    /\ best_all = EmptyResult


\* An isolated node: it has no neighbour.
Isolated(g, n) == neighbors(g, n) = <<>>

\* C14: enumerate(graph, 1) returns one group per node, the node alone, in the
\* iteration order of the nodes (isolated nodes included).
C14_SingletonsInNodeOrder ==
    (Returned /\ desired_length = 1) =>
        Library = [i \in DOMAIN G.nodes |-> <<G.nodes[i]>>]

\* C14 witness: k = 1 on a graph of three or more nodes iterated in descending
\* order, with an isolated node and an edge.
C14_Witness ==
    /\ Returned
    /\ desired_length = 1
    /\ Len(G.nodes) >= 3
    /\ G.nodes[1] > G.nodes[2]
    /\ \E n \in Range(G.nodes) : Isolated(G, n)
    /\ \E n \in Range(G.nodes) : ~Isolated(G, n)
    /\ Len(Library) = Len(G.nodes)


\* C15: a second enumerate(graph, k) on the same graph returns the identical
\* library: the same groups, in the same order, with the same member order.
C15_SecondCallSameLibrary ==
    (Returned /\ kept_library # None) => path_library = kept_library

\* C15 witness: the second call returned a library of two or more groups, one
\* of them recorded in an order that is not the sorted one.
C15_Witness ==
    /\ Returned
    /\ kept_library # None
    /\ Len(Library) >= 2
    /\ \E i \in DOMAIN Library : Library[i] # Sorted(Library[i])


\* The members of a group, whatever their order.
Members(g) == Range(g)

OnScenarioGraph == G \in ScenarioGraphs

\* C16: on the five-player graph the score of {A, B, C} is 11, the score of
\* {C, D, E} is 6, and select_best over these two groups returns {A, B, C}
\* with score 11.
C16_ScenarioScores ==
    OnScenarioGraph =>
        /\ (pc = "scored" /\ Len(group) = 3 /\ Members(group) = {1, 2, 3}) => result = Some(11)
        /\ (pc = "scored" /\ Len(group) = 3 /\ Members(group) = {3, 4, 5}) => result = Some(6)
        /\ (pc = "selected" /\ Len(groups) = 2
              /\ {Members(groups[1]), Members(groups[2])} = {{1, 2, 3}, {3, 4, 5}})
               => /\ raised = ""
                  /\ result.best_score = Some(11)
                  /\ result.best_group # None
                  /\ Members(result.best_group[1]) = {1, 2, 3}
                  /\ Contains(groups, result.best_group[1])

\* C16 witness: select_best ran over <<{C, D, E}, {A, B, C}>>, the better group
\* second, and returned a group.
C16_Witness ==
    /\ OnScenarioGraph
    /\ pc = "selected"
    /\ Len(groups) = 2
    /\ Members(groups[1]) = {3, 4, 5}
    /\ Members(groups[2]) = {1, 2, 3}
    /\ result.best_group # None

\* The enumeration of the five-player graph with k = 5 has returned.
ScenarioFive ==
    /\ OnScenarioGraph
    /\ desired_length = 5
    /\ pc \in {"done", "queried", "best_with", "best"}

\* C17 as stated: with k = 5 enumerate returns the one group {A, B, C, D, E},
\* select_best returns it with score 14, and filter_by_member(library, "A")
\* returns exactly that group.
C17_SoleGroupScores14 ==
    ScenarioFive =>
        /\ Len(Library) = 1
        /\ Members(Library[1]) = {1, 2, 3, 4, 5}
        /\ pc = "best" => best_all = [best_group |-> Some(Library[1]), best_score |-> Some(14)]
        /\ (pc = "queried" /\ query_node = 1) => paths_with_C = Library

\* C17, amended: with k = 5 enumerate returns the one group {A, B, C, D, E},
\* select_best returns it with score 15 (node weights 9, and all five edges:
\* 2 + 1 + 1 + 1 + 1 = 6), and filter_by_member(library, "A") returns exactly
\* that group.
C17_SoleGroupScores15 ==
    ScenarioFive =>
        /\ Len(Library) = 1
        /\ Members(Library[1]) = {1, 2, 3, 4, 5}
        /\ pc = "best" => best_all = [best_group |-> Some(Library[1]), best_score |-> Some(15)]
        /\ (pc = "queried" /\ query_node = 1) => paths_with_C = Library

\* C17 witness: the best group of the k = 5 library was selected after the
\* library was filtered by A.
C17_Witness ==
    /\ ScenarioFive
    /\ pc = "best"
    /\ query_node = 1
    /\ Len(paths_with_C) = 1
    /\ best_all.best_group # None


\* The member sets of the groups of a library.
MemberSets(library) == {Members(library[i]) : i \in DOMAIN library}

\* The second enumeration of the graph was the interleaved one.
Interleaved == workers # <<>>

\* C18: the library returned for a graph and the one returned for the same
\* graph with its start nodes and its neighbour lists in any other order, or
\* by one search per start node interleaved over the one set with the test
\* and the insertion in one step, hold the same member sets, each once; only
\* the order of the library and the member order of a group may differ.
C18_SameMemberSetsInEveryOrder ==
    (Returned /\ kept_library # None) =>
        /\ MemberSets(Library) = MemberSets(kept_library[1])
        /\ Len(Library) = Len(kept_library[1])

\* C18 witness: the interleaved searches returned two or more groups, in
\* another order than the sequential call, and a group with another member
\* order.
C18_Witness ==
    /\ Returned
    /\ kept_library # None
    /\ Interleaved
    /\ Len(Library) >= 2
    /\ [i \in DOMAIN Library |-> Members(Library[i])]
           # [i \in DOMAIN kept_library[1] |-> Members(kept_library[1][i])]
    /\ \E i \in DOMAIN Library : Library[i] \notin Range(kept_library[1])

\* The same for the sequential call on the reordered graph.
C18_ReorderedWitness ==
    /\ Returned
    /\ kept_library # None
    /\ ~Interleaved
    /\ Len(Library) >= 2
    /\ [i \in DOMAIN Library |-> Members(Library[i])]
           # [i \in DOMAIN kept_library[1] |-> Members(kept_library[1][i])]
    /\ \E i \in DOMAIN Library : Library[i] \notin Range(kept_library[1])


\* C19: for every graph (sparse, disconnected or empty) and every k >= 1 the
\* call of enumerate returns a library in the end, with no error raised: the
\* depth-first search does not run forever.
C19_EnumerateTerminates ==
    (pc = "call" /\ desired_length >= 1) ~> (Returned /\ raised = "")

\* C19 witness: the call returned on a graph of three nodes, one of them
\* isolated and two joined, with k = 3: no group, and still a library.
C19_Witness ==
    /\ Returned
    /\ raised = ""
    /\ desired_length = 3
    /\ Len(G.nodes) = 3
    /\ \E n \in Range(G.nodes) : Isolated(G, n)
    /\ \E n \in Range(G.nodes) : ~Isolated(G, n)
    /\ Library = <<>>


\* A dfs call of enumerate(graph, k) with k >= 1 is running or has just returned
\* to its caller; the start node is the one the outer loop took last.
InSearch == pc \in {"dfs", "record", "backtrack"} /\ desired_length >= 1

StartNodeOfSearch == G.nodes[si - 1]

\* C20: at every step of the search the path starts at the current start node,
\* has between 1 and k nodes, no node twice, and consecutive nodes adjacent;
\* and no step makes a path of k nodes longer, seen before or not.
C20_PathStaysSimpleAndBounded ==
    /\ [](InSearch =>
            /\ Len(path) >= 1
            /\ Len(path) <= desired_length
            /\ path[1] = StartNodeOfSearch
            /\ IsSimplePath(G, path))
    /\ [][(desired_length >= 1 /\ Len(path) = desired_length)
              => Len(path') <= Len(path)]_vars

\* C20 witness: a dfs call holds a path of k = 3 nodes whose member set is
\* already in unique_paths, on a graph where its last node has a neighbour
\* that is not in the path.
C20_Witness ==
    /\ pc = "dfs"
    /\ desired_length = 3
    /\ Len(path) = 3
    /\ sorted_path(path) \in unique_paths
    /\ \E i \in DOMAIN neighbors(G, path[3]) : not_in_path(neighbors(G, path[3])[i], path)


\* The path a dfs call was entered with is the list of the nodes of the calls
\* up to it: dfs(node, [node]) and, after path.append(neighbor), dfs(neighbor, path).
Currents(frames) == [i \in DOMAIN frames |-> frames[i].current]

CallBegins == Len(stack') = Len(stack) + 1

CallReturns == Len(stack') = Len(stack) - 1

\* C21: a dfs call begins with the path of the nodes of the calls up to it and,
\* on each of its returns (the neighbours exhausted, or the return at depth k),
\* leaves the shared path as it was when the call began; the calls that are
\* still running keep their node; and an entry of the library is never changed
\* or removed by a later step.
C21_PathRestoredOnReturn ==
    [][/\ CallBegins => path' = Currents(stack')
       /\ CallReturns => (path = Currents(stack) /\ path' = path)
       /\ \A i \in DOMAIN stack \cap DOMAIN stack' : stack'[i].current = stack[i].current
       /\ \A i \in DOMAIN all_paths :
              i \in DOMAIN all_paths' /\ all_paths'[i] = all_paths[i]]_vars

\* C21 witness: with k = 3 a call at depth 2 has returned to its caller after
\* its neighbours were exhausted, paths having been recorded at depth 3 before.
C21_Witness ==
    /\ pc = "backtrack"
    /\ desired_length = 3
    /\ Len(path) = 2
    /\ Len(stack) = 1
    /\ Len(all_paths) >= 2


\* The sum of the node weights of the members of S.
NodeWeightSum(g, S) == SumOver(S, [n \in S |-> node_weight(g, n)])

\* C22: on a graph built from a roster table, with k >= 1, every group of the
\* returned library has at least k - 1 unordered pairs of members joined by an
\* edge, and its score is at least the sum of its members' node weights plus
\* k - 1.
C22_GroupHasPathEdges ==
    (Returned /\ desired_length >= 1) =>
        \A i \in DOMAIN Library :
            /\ Cardinality(JoinedPairs(G, Members(Library[i]))) >= desired_length - 1
            /\ compute_group_score(G, Library[i])
                   >= NodeWeightSum(G, Members(Library[i])) + desired_length - 1

\* C22 witness: the library of a built graph with k = 3 holds a group of
\* named players with more joined pairs than the two of its path, and a score above the bound.
C22_Witness ==
    /\ Returned
    /\ df # <<>>
    /\ desired_length = 3
    /\ \E i \in DOMAIN Library :
           /\ \A j \in DOMAIN Library[i] : ~is_nan(Library[i][j])
           /\ Cardinality(JoinedPairs(G, Members(Library[i]))) > 2
           /\ compute_group_score(G, Library[i]) > NodeWeightSum(G, Members(Library[i])) + 2


\* lib goes on from old: every entry of old is still there, at its place.
IsPrefix(old, lib) == Len(old) <= Len(lib) /\ SubSeq(lib, 1, Len(old)) = old

\* The search is between unique_paths.add(sorted_path) and
\* all_paths.append(path.copy()).
Recording == pc = "record"

\* The sorted tuples of the entries of the library.
SortedEntries == {Sorted(all_paths[i]) : i \in DOMAIN all_paths}

\* As many entries in the list as in the set, the sorted tuple of every entry
\* is in the set and every element of the set is the sorted tuple of an entry.
\* (The sorted tuples of the n entries being the n elements of the set, no two
\* entries have the same one: each element is the tuple of exactly one entry.)
SeenOneToOne ==
    /\ Len(all_paths) = Cardinality(unique_paths)
    /\ SortedEntries = unique_paths

\* C23 as stated: at every state of enumerate the set unique_paths and the
\* list all_paths correspond one to one, and no step removes or moves an entry
\* of either.
C23_SeenMatchesLibraryAtEveryState ==
    /\ []SeenOneToOne
    /\ [][IsPrefix(all_paths, all_paths') /\ unique_paths \subseteq unique_paths']_vars

\* C23 amended: at every state of enumerate but the one between the insertion
\* of a path's sorted tuple into unique_paths and the appending of the path to
\* all_paths, the two correspond one to one; in that state the set holds
\* exactly one element more, the sorted tuple of the current path, which is
\* the sorted tuple of no entry of the list; and no step removes or moves an
\* entry of either.
C23_SeenMatchesLibrary ==
    /\ [](~Recording => SeenOneToOne)
    /\ [](Recording =>
            /\ Cardinality(unique_paths) = Len(all_paths) + 1
            /\ Cardinality(SortedEntries) = Len(all_paths)
            /\ Sorted(path) \notin SortedEntries
            /\ unique_paths = SortedEntries \cup {Sorted(path)})
    /\ [][IsPrefix(all_paths, all_paths') /\ unique_paths \subseteq unique_paths']_vars

\* C23 witness: with k = 3 two or more paths are recorded, one of them not in
\* sorted order, and the sorted tuple of a third path, not in sorted order
\* either, is in the set while the path is not yet in the list.
C23_Witness ==
    /\ Recording
    /\ desired_length = 3
    /\ Len(path) = 3
    /\ Len(all_paths) >= 2
    /\ \E i \in DOMAIN all_paths : Sorted(all_paths[i]) # all_paths[i]
    /\ Sorted(path) # path
    /\ Sorted(path) \in unique_paths
    /\ path \notin Range(all_paths)


\* The best group among the library groups that hold the queried node has
\* been selected.
BestWithSelected == pc \in {"best_with", "best"} /\ desired_length >= 1

\* C24: best_team_with(n) is the empty result exactly when no group of the
\* library holds n; otherwise it is a group of the library that holds n, and
\* its score is not above the score of best_team() over the whole library.
C24_BestWithIsBoundedByBest ==
    BestWithSelected =>
        /\ raised = ""
        /\ (best_with = EmptyResult) <=> (\A i \in DOMAIN Library : ~Contains(Library[i], query_node))
        /\ best_with # EmptyResult =>
               /\ best_with.best_group # None
               /\ best_with.best_score # None
               /\ Contains(Library, best_with.best_group[1])
               /\ Contains(best_with.best_group[1], query_node)
               /\ best_with.best_score[1] = compute_group_score(G, best_with.best_group[1])
        /\ (pc = "best" /\ best_with # EmptyResult) =>
               /\ best_all # EmptyResult
               /\ best_all.best_score # None
               /\ best_with.best_score[1] <= best_all.best_score[1]

\* C24 witness: with k = 3 the best group holding the queried node scores less
\* than the best group of the library, and some library group does not hold it.
C24_Witness ==
    /\ pc = "best"
    /\ desired_length = 3
    /\ best_with # EmptyResult
    /\ best_all # EmptyResult
    /\ best_with.best_score[1] < best_all.best_score[1]
    /\ Len(paths_with_C) >= 2
    /\ Len(paths_with_C) < Len(Library)

====
